---- MODULE Spec2Model ----
(***************************************************************************)
(* A model of minimoore: deterministic Moore machines                      *)
(* (minimoore/transducers.py, minimoore/moore.py), their minimization by   *)
(* partition refinement and the bisimulation check built on the fixpoint   *)
(* solver (minimoore/fixpoints.py).                                        *)
(***************************************************************************)
EXTENDS Integers, FiniteSets, Sequences, TLC

(***************************************************************************)
(* Bounds of the model.                                                    *)
(***************************************************************************)
\* states of a machine drawn as the receiver of minimize() (SpecMin)
MaxStates == 3
\* how many times the returned machine is minimized again
MaxChain == 1
MaxElems == 2

\* states of a machine built call by call (Spec): one less than MaxStates
MaxBuildStates == MaxStates - 1
\* input symbols and output symbols a client uses
Sym == {0, 1}
Out == {"a", "b"}

\* Python's None, where a state id is expected (Optional[StateT])
None == -1
\* Python's None in the output table (Optional[OutputSymT])
NoOutput == "None"

VARIABLES
    self,         \* the machine the client builds and calls methods on
    other,        \* a second machine: the one minimize() returned, or the
                  \* argument of is_equivalent
    pc,           \* "build" (the client builds self), "hopcroft" (inside
                  \* the loop of _hopcroft_minimize), "ready" (built)
    partition,    \* _hopcroft_minimize: the working partition
    waiting_set,  \* _hopcroft_minimize: the queued splitters
    ret,          \* the outcome of the last call: [op, exc, val]
    gen           \* how many minimize() calls produced self

vars == <<self, other, pc, partition, waiting_set, ret, gen>>

(***************************************************************************)
(* FiniteTransducer / FiniteDetTransducer / MooreDetMachine: the fields.   *)
(***************************************************************************)
\* The empty function, a dict() with no key.
EmptyDict == [x \in {} |-> 0]

\* __init__ of the three classes
NewMachine ==
    [n_states |-> 0,
     init_states |-> {},
     init_state |-> None,
     output_table |-> EmptyDict,
     transitions |-> EmptyDict,
     input_symbols |-> {},
     output_symbols |-> {}]

\* FiniteTransducer.is_state
is_state(m, state) == state # None /\ 0 <= state /\ state < m.n_states

\* FiniteTransducer.states
states(m) == 0 .. (m.n_states - 1)

\* d[k] = v on a dict: the key is added when absent
DictSet(d, k, v) == [x \in (DOMAIN d) \cup {k} |-> IF x = k THEN v ELSE d[x]]

\* (a variant for C20) new_state with the counter left as it was: the
\* state is registered under the id of the last one
new_state_reuse(m) ==
    [m EXCEPT !.output_table = DictSet(m.output_table, m.n_states, NoOutput),
              !.transitions = DictSet(m.transitions, m.n_states, EmptyDict)]

\* FiniteTransducer.new_state with MooreDetMachine._register_state
new_state(m) ==
    [m EXCEPT !.n_states = m.n_states + 1,
              !.output_table = DictSet(m.output_table, m.n_states, NoOutput),
              !.transitions = DictSet(m.transitions, m.n_states, EmptyDict)]

\* (a variant for C31) set_state_output with the output alphabet taken
\* again from the table: an output that no state has any more leaves it
set_state_output_recount(m, state, output) ==
    [m EXCEPT !.output_table = DictSet(m.output_table, state, output),
              !.output_symbols =
                  {DictSet(m.output_table, state, output)[s] : s \in states(m)}
                      \ {NoOutput}]

\* MooreDetMachine.set_state_output, past its assert
set_state_output(m, state, output) ==
    [m EXCEPT !.output_table = DictSet(m.output_table, state, output),
              !.output_symbols = m.output_symbols \cup {output}]

\* MooreDetMachine.new_state_output
new_state_output(m, output) == set_state_output(new_state(m), m.n_states, output)

\* (a variant for C21) new_transition with the symbol not added to the
\* input alphabet
new_transition_unlisted(m, state1, symbol, state2) ==
    [m EXCEPT !.transitions =
                  DictSet(m.transitions, state1,
                          DictSet(m.transitions[state1], symbol,
                                  <<state1, symbol, state2>>))]

\* MooreDetMachine.new_transition, past its asserts
new_transition(m, state1, symbol, state2) ==
    [m EXCEPT !.transitions =
                  DictSet(m.transitions, state1,
                          DictSet(m.transitions[state1], symbol,
                                  <<state1, symbol, state2>>)),
              !.input_symbols = m.input_symbols \cup {symbol}]

\* (a variant for C11) FiniteTransducer.set_initial alone: the state is
\* added to the set
set_initial_add(m, state) ==
    IF is_state(m, state)
    THEN [ok |-> TRUE,
          m |-> [m EXCEPT !.init_states = m.init_states \cup {state},
                          !.init_state = state]]
    ELSE [ok |-> FALSE, m |-> m]

\* FiniteDetTransducer.set_initial: the set is cleared before the id is
\* validated; a failed call (ok = FALSE, ValueError) keeps init_state.
set_initial(m, state) ==
    IF is_state(m, state)
    THEN [ok |-> TRUE,
          m |-> [m EXCEPT !.init_states = {state}, !.init_state = state]]
    ELSE [ok |-> FALSE, m |-> [m EXCEPT !.init_states = {}]]

\* MooreDetMachine.arcs_from
arcs_from(m, state) == DOMAIN m.transitions[state]

\* MooreDetMachine.output_fn fails its assert on an unset output
output_assigned(m, state) == m.output_table[state] # NoOutput

\* (a variant for C9) det_step with a missing transition read as a loop on
\* the state and an unset output read as an output
det_step_total(m, state, symbol) ==
    IF ~is_state(m, state)
    THEN [kind |-> "AssertionError", next |-> None, out |-> NoOutput]
    ELSE [kind |-> "ok",
          next |-> IF symbol \in arcs_from(m, state)
                   THEN m.transitions[state][symbol][3] ELSE state,
          out |-> m.output_table[state]]

\* FiniteDetTransducer.det_step over MooreDetMachine.step:
\* kind "ok" with (next, out), kind "None" (no transition), or kind
\* "AssertionError" (not a state, or the output of state is unset).
det_step(m, state, symbol) ==
    IF ~is_state(m, state)
    THEN [kind |-> "AssertionError", next |-> None, out |-> NoOutput]
    ELSE IF symbol \notin arcs_from(m, state)
    THEN [kind |-> "None", next |-> None, out |-> NoOutput]
    ELSE IF ~output_assigned(m, state)
    THEN [kind |-> "AssertionError", next |-> None, out |-> NoOutput]
    ELSE [kind |-> "ok",
          next |-> m.transitions[state][symbol][3],
          out |-> m.output_table[state]]

\* MooreDetMachine.transitions: every triple of the table
transition_set(m) ==
    UNION {{m.transitions[s][a] : a \in DOMAIN m.transitions[s]} : s \in states(m)}

\* (a variant for C14) __eq__ without the comparison of the transitions
eq_fields(m1, m2, same) ==
    IF same THEN TRUE
    ELSE IF m1.n_states # m2.n_states THEN FALSE
    ELSE IF m1.init_states # m2.init_states THEN FALSE
    ELSE IF m1.input_symbols # m2.input_symbols THEN FALSE
    ELSE IF m1.output_symbols # m2.output_symbols THEN FALSE
    ELSE TRUE

\* FiniteTransducer.__eq__(other), called on m1 with other = m2; same is
\* `self is other`
eq(m1, m2, same) ==
    IF same THEN TRUE
    ELSE IF m1.n_states # m2.n_states THEN FALSE
    ELSE IF m1.init_states # m2.init_states THEN FALSE
    ELSE IF m1.input_symbols # m2.input_symbols THEN FALSE
    ELSE IF m1.output_symbols # m2.output_symbols THEN FALSE
    ELSE IF transition_set(m1) # transition_set(m2) THEN FALSE
    ELSE TRUE

\* (a variant for C19) a state counted as complete as soon as it has one
\* transition
is_complete_some(m) ==
    \A s \in states(m) :
        ~(Cardinality(arcs_from(m, s)) < Cardinality(m.input_symbols))
            \/ arcs_from(m, s) # {}

\* FiniteTransducer.is_complete
is_complete(m) ==
    \A s \in states(m) :
        ~(Cardinality(arcs_from(m, s)) < Cardinality(m.input_symbols))

\* complete_sink: new_transition(state, symbol, sink) for every pair of
\* missing, in any order (the pairs are distinct)
RECURSIVE complete_sink_arcs(_, _, _)
complete_sink_arcs(m, missing, sink) ==
    IF missing = {} THEN m
    ELSE LET p == CHOOSE q \in missing : TRUE
         IN  complete_sink_arcs(new_transition(m, p[1], p[2], sink),
                                missing \ {p}, sink)

\* MooreDetMachine.complete_sink(default_output): nothing to do (None) on a
\* complete machine; otherwise a new state with the output, and a transition
\* to it from every state, the new one included, on every symbol the state
\* has no transition for. [m, val]
complete_sink(m, default_output) ==
    IF is_complete(m)
    THEN [m |-> m, val |-> None]
    ELSE LET sink == m.n_states
             with_sink == new_state_output(m, default_output)
             missing == {<<s, a>> \in states(with_sink) \X with_sink.input_symbols :
                             a \notin arcs_from(with_sink, s)}
         IN  [m |-> complete_sink_arcs(with_sink, missing, sink), val |-> sink]

RECURSIVE process_word_loop_skip(_, _, _, _, _)
\* (a variant for C12) with strict=False a symbol with no transition is
\* skipped and the loop goes on
process_word_loop_skip(m, state, word, strict, output_word) ==
    IF word = <<>>
    THEN [exc |-> "None", out |-> output_word, state |-> state]
    ELSE LET arc == det_step(m, state, Head(word))
         IN  IF arc.kind = "AssertionError"
             THEN [exc |-> "AssertionError", out |-> <<>>, state |-> None]
             ELSE IF arc.kind = "ok"
             THEN process_word_loop_skip(m, arc.next, Tail(word), strict,
                                         Append(output_word, arc.out))
             ELSE IF strict
             THEN [exc |-> "ValueError", out |-> <<>>, state |-> None]
             ELSE process_word_loop_skip(m, state, Tail(word), strict, output_word)

\* FiniteDetTransducer.process_word_from: [exc, out, state]; a call that
\* raises (exc # "None") returns nothing: out = <<>>, state = None.
RECURSIVE process_word_loop(_, _, _, _, _)
process_word_loop(m, state, word, strict, output_word) ==
    IF word = <<>>
    THEN [exc |-> "None", out |-> output_word, state |-> state]
    ELSE LET arc == det_step(m, state, Head(word))
         IN  IF arc.kind = "AssertionError"
             THEN [exc |-> "AssertionError", out |-> <<>>, state |-> None]
             ELSE IF arc.kind = "ok"
             THEN process_word_loop(m, arc.next, Tail(word), strict,
                                    Append(output_word, arc.out))
             ELSE IF strict
             THEN [exc |-> "ValueError", out |-> <<>>, state |-> None]
             ELSE [exc |-> "None", out |-> output_word, state |-> state]

process_word_from(m, state, word, strict) ==
    IF ~is_state(m, state)
    THEN [exc |-> "AssertionError", out |-> <<>>, state |-> None]
    ELSE process_word_loop(m, state, word, strict, <<>>)

\* FiniteDetTransducer.process_word: [exc, out]
process_word(m, word, strict) ==
    IF m.init_state = None
    THEN [exc |-> "AssertionError", out |-> <<>>]
    ELSE LET r == process_word_from(m, m.init_state, word, strict)
         IN  [exc |-> r.exc, out |-> r.out]

(***************************************************************************)
(* MooreDetMachine.minimize: _hopcroft_minimize and its helpers.           *)
(***************************************************************************)
\* MooreDetMachine.__output_partitions: output_fn asserts on every state
output_partitions(m) ==
    IF \E s \in states(m) : ~output_assigned(m, s)
    THEN [exc |-> "AssertionError", partition |-> {}]
    ELSE [exc |-> "None",
          partition |->
              {{s \in states(m) : m.output_table[s] = o} :
                   o \in {m.output_table[s] : s \in states(m)}}]

\* (a variant for C3) __apply_splitter with the classes keyed by the output
\* symbol alone
apply_splitter_outputs(m, group, symbol, test_set) ==
    LET transitions == {<<s, det_step(m, s, symbol)>> : s \in group}
    IN  IF \E t \in transitions : t[2].kind # "ok"
        THEN [exc |-> "AssertionError", sub_partition |-> {}]
        ELSE [exc |-> "None",
              sub_partition |->
                  {{t[1] : t \in {u \in transitions : u[2].out = k}} :
                       k \in {t[2].out : t \in transitions}}]

\* MooreDetMachine.__apply_splitter: the classes of partitions_map, keyed
\* by (inside, output_symbol); the asserts fail on a state of the group
\* with no transition on symbol
apply_splitter(m, group, symbol, test_set) ==
    LET transitions == {<<s, det_step(m, s, symbol)>> : s \in group}
        keyed == {<<t[1], <<t[2].next \in test_set, t[2].out>>>> : t \in transitions}
    IN  IF \E t \in transitions : t[2].kind # "ok"
        THEN [exc |-> "AssertionError", sub_partition |-> {}]
        ELSE [exc |-> "None",
              sub_partition |->
                  {{t[1] : t \in {u \in keyed : u[2] = k}} :
                       k \in {t[2] : t \in keyed}}]

\* _hopcroft_minimize, lines 180-187: the initial partition and splitters
hopcroft_init(m) ==
    LET p == output_partitions(m)
    IN  [exc |-> p.exc,
         partition |-> p.partition,
         waiting_set |-> {<<group, symbol>> :
                              group \in p.partition, symbol \in m.input_symbols}]

\* (a variant for C28) the iteration with the waiting set rebuilt from the
\* sub-classes of the split classes: the splitters queued before are lost
hopcroft_iteration_requeue(m, part, waiting, splitter) ==
    LET applied == {<<group, apply_splitter(m, group, splitter[2], splitter[1])>> :
                        group \in part}
        split == {a \in applied : Cardinality(a[2].sub_partition) # 1}
    IN  IF \E a \in applied : a[2].exc # "None"
        THEN [exc |-> "AssertionError", partition |-> {}, waiting_set |-> {}]
        ELSE [exc |-> "None",
              partition |-> UNION {a[2].sub_partition : a \in applied},
              waiting_set |->
                  {<<sub_group, symbol>> :
                       sub_group \in UNION {a[2].sub_partition : a \in split},
                       symbol \in m.input_symbols}]

\* (a variant for C22) the iteration with the sub-classes added to the
\* partition it iterates on, the split classes left in it
hopcroft_iteration_keep(m, part, waiting, splitter) ==
    LET applied == {<<group, apply_splitter(m, group, splitter[2], splitter[1])>> :
                        group \in part}
        split == {a \in applied : Cardinality(a[2].sub_partition) # 1}
    IN  IF \E a \in applied : a[2].exc # "None"
        THEN [exc |-> "AssertionError", partition |-> {}, waiting_set |-> {}]
        ELSE [exc |-> "None",
              partition |-> part \cup UNION {a[2].sub_partition : a \in applied},
              waiting_set |->
                  (((waiting \ {splitter})
                      \ {<<a[1], symbol>> : a \in split, symbol \in m.input_symbols})
                      \cup {<<sub_group, symbol>> :
                                sub_group \in UNION {a[2].sub_partition : a \in split},
                                symbol \in m.input_symbols})]

\* (a variant for C23) the iteration without waiting_set.discard: the
\* splitters of a split class stay queued
hopcroft_iteration_stale(m, part, waiting, splitter) ==
    LET applied == {<<group, apply_splitter(m, group, splitter[2], splitter[1])>> :
                        group \in part}
        split == {a \in applied : Cardinality(a[2].sub_partition) # 1}
    IN  IF \E a \in applied : a[2].exc # "None"
        THEN [exc |-> "AssertionError", partition |-> {}, waiting_set |-> {}]
        ELSE [exc |-> "None",
              partition |-> UNION {a[2].sub_partition : a \in applied},
              waiting_set |->
                  ((waiting \ {splitter})
                      \cup {<<sub_group, symbol>> :
                                sub_group \in UNION {a[2].sub_partition : a \in split},
                                symbol \in m.input_symbols})]

\* (a variant for C24) the iteration with the splitter read and left in
\* the waiting set
hopcroft_iteration_peek(m, part, waiting, splitter) ==
    LET applied == {<<group, apply_splitter(m, group, splitter[2], splitter[1])>> :
                        group \in part}
        split == {a \in applied : Cardinality(a[2].sub_partition) # 1}
    IN  IF \E a \in applied : a[2].exc # "None"
        THEN [exc |-> "AssertionError", partition |-> {}, waiting_set |-> {}]
        ELSE [exc |-> "None",
              partition |-> UNION {a[2].sub_partition : a \in applied},
              waiting_set |->
                  ((waiting
                      \ {<<a[1], symbol>> : a \in split, symbol \in m.input_symbols})
                      \cup {<<sub_group, symbol>> :
                                sub_group \in UNION {a[2].sub_partition : a \in split},
                                symbol \in m.input_symbols})]

\* _hopcroft_minimize, lines 191-217: one iteration of the loop, with the
\* popped splitter. The groups of a partition are disjoint, so the discards
\* and the updates of different groups do not meet and the order in which
\* `for group in partition` visits them does not show in the result.
hopcroft_iteration(m, part, waiting, splitter) ==
    LET applied == {<<group, apply_splitter(m, group, splitter[2], splitter[1])>> :
                        group \in part}
        split == {a \in applied : Cardinality(a[2].sub_partition) # 1}
    IN  IF \E a \in applied : a[2].exc # "None"
        THEN [exc |-> "AssertionError", partition |-> {}, waiting_set |-> {}]
        ELSE [exc |-> "None",
              partition |-> UNION {a[2].sub_partition : a \in applied},
              waiting_set |->
                  (((waiting \ {splitter})
                      \ {<<a[1], symbol>> : a \in split, symbol \in m.input_symbols})
                      \cup {<<sub_group, symbol>> :
                                sub_group \in UNION {a[2].sub_partition : a \in split},
                                symbol \in m.input_symbols})]

\* _moore_minimize, lines 157-171: the two loops over the groups for one
\* symbol; groups is what new_partition.add receives. (On a machine with a
\* missing transition the assert of __apply_splitter ends the call.)
moore_refined(m, part, symbol) ==
    LET applied == {<<group, apply_splitter(m, group, symbol, test_group)>> :
                        group \in part, test_group \in part}
    IN  IF \E a \in applied : a[2].exc # "None"
        THEN [exc |-> "AssertionError", groups |-> {}]
        ELSE [exc |-> "None",
              groups |->
                  {refined_group \in
                       UNION {{a[1] \cap sub_group : sub_group \in a[2].sub_partition} :
                                  a \in applied} :
                       refined_group # {}}]

\* _moore_minimize, lines 153-171: `for symbol in self.input_alphabet`, the
\* symbols taken in the order symbol_list. new_partition is never emptied,
\* and after `partition = new_partition` the two names are one set object
\* (aliased): an add of a group that the set does not hold, while the loops
\* iterate over it, ends the call with Python's RuntimeError "Set changed
\* size during iteration".
RECURSIVE moore_symbols(_, _, _, _, _, _)
moore_symbols(m, part, new_partition, aliased, symbol_list, i) ==
    IF i > Len(symbol_list)
    THEN [exc |-> "None", partition |-> part, new_partition |-> new_partition,
          aliased |-> aliased]
    ELSE LET r == moore_refined(m, part, symbol_list[i])
         IN  IF r.exc # "None"
             THEN [exc |-> r.exc, partition |-> {}, new_partition |-> {},
                   aliased |-> aliased]
             ELSE IF aliased /\ ~(r.groups \subseteq part)
             THEN [exc |-> "RuntimeError", partition |-> {}, new_partition |-> {},
                   aliased |-> aliased]
             ELSE moore_symbols(m, new_partition \cup r.groups,
                                new_partition \cup r.groups, TRUE, symbol_list, i + 1)

\* list(partition): the orders in which a set may be enumerated
Orderings(S) ==
    {l \in [1 .. Cardinality(S) -> S] :
         \A i, j \in 1 .. Cardinality(S) : l[i] = l[j] => i = j}

\* next(iter(group)) for every group: one member of each
Representatives(part) ==
    {r \in [part -> UNION part] : \A group \in part : r[group] \in group}

RECURSIVE from_partitions_states_others(_, _, _, _)
\* (a variant for C7) the new initial state made the state of every class
\* that does not hold the old one
from_partitions_states_others(heap, partition_list, any_state, i) ==
    IF i > Len(partition_list) \/ heap.exc # "None"
    THEN heap
    ELSE LET group == partition_list[i]
             s == any_state[group]
         IN  IF ~output_assigned(heap.self, s)
             THEN [heap EXCEPT !.exc = "AssertionError"]
             ELSE LET created_state == heap.automa.n_states
                      a1 == new_state_output(heap.automa,
                                             heap.self.output_table[s])
                      a2 == IF heap.self.init_state \notin group
                            THEN set_initial(a1, created_state).m
                            ELSE a1
                  IN  from_partitions_states_others(
                          [heap EXCEPT
                               !.automa = a2,
                               !.partition_states =
                                   DictSet(heap.partition_states, i, created_state)],
                          partition_list, any_state, i + 1)

\* __from_partitions, lines 286-296: a state and an output for each class.
\* The heap is [exc, self, automa, partition_states].
RECURSIVE from_partitions_states(_, _, _, _)
from_partitions_states(heap, partition_list, any_state, i) ==
    IF i > Len(partition_list) \/ heap.exc # "None"
    THEN heap
    ELSE LET group == partition_list[i]
             s == any_state[group]
         IN  IF ~output_assigned(heap.self, s)
             THEN [heap EXCEPT !.exc = "AssertionError"]
             ELSE LET created_state == heap.automa.n_states
                      a1 == new_state_output(heap.automa,
                                             heap.self.output_table[s])
                      a2 == IF heap.self.init_state \in group
                            THEN set_initial(a1, created_state).m
                            ELSE a1
                  IN  from_partitions_states(
                          [heap EXCEPT
                               !.automa = a2,
                               !.partition_states =
                                   DictSet(heap.partition_states, i, created_state)],
                          partition_list, any_state, i + 1)

\* __from_partitions, lines 306-311: the first class holding the destination
first_index(partition_list, state) ==
    LET found == {j \in 1 .. Len(partition_list) : state \in partition_list[j]}
    IN  IF found = {} THEN 0
        ELSE CHOOSE j \in found : \A k \in found : j <= k

\* (a variant for C1) the arcs of class i all made loops on its own state
from_partitions_arcs_loops(heap, partition_list, any_state, i, symbols) ==
    IF symbols = {} \/ heap.exc # "None"
    THEN heap
    ELSE [heap EXCEPT
              !.automa =
                  [heap.automa EXCEPT
                       !.transitions =
                           DictSet(heap.automa.transitions, heap.partition_states[i],
                                   [a \in symbols |->
                                       <<heap.partition_states[i], a,
                                         heap.partition_states[i]>>]),
                       !.input_symbols = heap.automa.input_symbols \cup symbols]]

\* __from_partitions, lines 303-311: the arcs of class i, symbol by symbol
RECURSIVE from_partitions_arcs(_, _, _, _, _)
from_partitions_arcs(heap, partition_list, any_state, i, symbols) ==
    IF symbols = {} \/ heap.exc # "None"
    THEN heap
    ELSE LET symbol == CHOOSE x \in symbols : TRUE
             transition == det_step(heap.self, any_state[partition_list[i]], symbol)
             j == first_index(partition_list, transition.next)
         IN  IF transition.kind # "ok"
             THEN [heap EXCEPT !.exc = "AssertionError"]
             ELSE from_partitions_arcs(
                      IF j = 0 THEN heap
                      ELSE [heap EXCEPT
                                !.automa = new_transition(heap.automa,
                                               heap.partition_states[i], symbol,
                                               heap.partition_states[j])],
                      partition_list, any_state, i, symbols \ {symbol})

\* (a variant for C25) the second loop stopping before the last class
RECURSIVE from_partitions_transitions_short(_, _, _, _)
from_partitions_transitions_short(heap, partition_list, any_state, i) ==
    IF i >= Len(partition_list) \/ heap.exc # "None"
    THEN heap
    ELSE from_partitions_transitions_short(
             from_partitions_arcs(heap, partition_list, any_state, i,
                                  heap.self.input_symbols),
             partition_list, any_state, i + 1)

\* __from_partitions, lines 298-311: a transition for each class
RECURSIVE from_partitions_transitions(_, _, _, _)
from_partitions_transitions(heap, partition_list, any_state, i) ==
    IF i > Len(partition_list) \/ heap.exc # "None"
    THEN heap
    ELSE from_partitions_transitions(
             from_partitions_arcs(heap, partition_list, any_state, i,
                                  heap.self.input_symbols),
             partition_list, any_state, i + 1)

\* (a variant for C8) __from_partitions building the machine in self
from_partitions_in_place(m, partition_list, any_state) ==
    LET heap == from_partitions_transitions(
                    from_partitions_states(
                        [exc |-> "None", self |-> m, automa |-> NewMachine,
                         partition_states |-> EmptyDict],
                        partition_list, any_state, 1),
                    partition_list, any_state, 1)
    IN  [heap EXCEPT !.self = heap.automa]

\* MooreDetMachine.__from_partitions: every call that changes a machine is
\* made on automa, the new machine
from_partitions(m, partition_list, any_state) ==
    from_partitions_transitions(
        from_partitions_states(
            [exc |-> "None", self |-> m, automa |-> NewMachine,
             partition_states |-> EmptyDict],
            partition_list, any_state, 1),
        partition_list, any_state, 1)

(***************************************************************************)
(* minimoore/fixpoints.py.  A function on sets is a TLA+ function from the *)
(* subsets of its universe to [exc, x]: the set it returns, or the         *)
(* exception it raises.                                                    *)
(***************************************************************************)
\* stop_cond=None
NoStop == [given |-> FALSE, fn |-> EmptyDict]

\* (a variant for C5) the loop left after the first application of fn
reach_fixpoint_once(fn, x, x_len, stop_cond) ==
    IF x_len >= 0
    THEN [exc |-> "None", x |-> x]
    ELSE IF stop_cond.given /\ stop_cond.fn[x]
    THEN [exc |-> "None", x |-> x]
    ELSE fn[x]

\* (a variant for C16) the loop with stop_cond evaluated on the set that fn
\* returns, after the application
RECURSIVE reach_fixpoint_loop_late(_, _, _, _)
reach_fixpoint_loop_late(fn, x, x_len, stop_cond) ==
    IF Cardinality(x) = x_len
    THEN [exc |-> "None", x |-> x]
    ELSE LET y == fn[x]
         IN  IF y.exc # "None" THEN y
             ELSE IF stop_cond.given /\ stop_cond.fn[y.x] THEN y
             ELSE reach_fixpoint_loop_late(fn, y.x, Cardinality(x), stop_cond)

\* (a variant for C27) x_len taken after the application, from the new set
reach_fixpoint_round_after(fn, x) == [x_len |-> Cardinality(fn[x]), x |-> fn[x]]

\* reach_fixpoint, lines 37-38: `x_len = len(x)` and `x = fn(x)`, fn a
\* function that raises nothing
reach_fixpoint_round(fn, x) == [x_len |-> Cardinality(x), x |-> fn[x]]

\* reach_fixpoint, lines 31-40: the loop, with its local x_len
RECURSIVE reach_fixpoint_loop(_, _, _, _)
reach_fixpoint_loop(fn, x, x_len, stop_cond) ==
    IF Cardinality(x) = x_len
    THEN [exc |-> "None", x |-> x]
    ELSE IF stop_cond.given /\ stop_cond.fn[x]
    THEN [exc |-> "None", x |-> x]
    ELSE LET y == fn[x]
         IN  IF y.exc # "None" THEN y
             ELSE reach_fixpoint_loop(fn, y.x, Cardinality(x), stop_cond)

\* reach_fixpoint
reach_fixpoint(fn, start, stop_cond) == reach_fixpoint_loop(fn, start, 0 - 1, stop_cond)

\* greatest_fixpoint
greatest_fixpoint(fn, universe, stop_cond) == reach_fixpoint(fn, universe, stop_cond)

\* least_fixpoint (start=None is start = {})
least_fixpoint(fn, start, stop_cond) == reach_fixpoint(fn, start, stop_cond)

\* Difference.__call__
Difference(fn) ==
    [x \in DOMAIN fn |->
        LET elements == fn[x]
        IN  IF elements.exc # "None" THEN elements
            ELSE [exc |-> "None", x |-> x \ elements.x]]

\* (a variant for C15) Union keeping only the produced elements that x
\* already has
Union_common(fn) ==
    [x \in DOMAIN fn |->
        LET elements == fn[x]
        IN  IF elements.exc # "None" THEN elements
            ELSE [exc |-> "None", x |-> x \cap elements.x]]

\* Union.__call__
Union(fn) ==
    [x \in DOMAIN fn |->
        LET elements == fn[x]
        IN  IF elements.exc # "None" THEN elements
            ELSE [exc |-> "None", x |-> x \cup elements.x]]

\* (a variant for C17) Intersection removing the produced elements from x
Intersection_remove(fn) ==
    [x \in DOMAIN fn |->
        LET elements == fn[x]
        IN  IF elements.exc # "None" THEN elements
            ELSE [exc |-> "None", x |-> x \ elements.x]]

\* Intersection.__call__
Intersection(fn) ==
    [x \in DOMAIN fn |->
        LET elements == fn[x]
        IN  IF elements.exc # "None" THEN elements
            ELSE [exc |-> "None", x |-> x \cap elements.x]]

(***************************************************************************)
(* MooreDetMachine.is_equivalent                                           *)
(***************************************************************************)
\* (a variant for C6) the arcs of the first state only required to be
\* among the arcs of the second
pair_not_bisimilar_subset(m1, m2, bisimilar, s1, s2) ==
    \/ m1.output_table[s1] # m2.output_table[s2]
    \/ ~(arcs_from(m1, s1) \subseteq arcs_from(m2, s2))
    \/ \E symbol \in arcs_from(m1, s1) :
           <<det_step(m1, s1, symbol).next, det_step(m2, s2, symbol).next>>
               \notin bisimilar

\* __not_bisimilar_set, lines 377-400, for one pair of `bisimilar`
pair_not_bisimilar(m1, m2, bisimilar, s1, s2) ==
    \/ m1.output_table[s1] # m2.output_table[s2]
    \/ arcs_from(m1, s1) # arcs_from(m2, s2)
    \/ \E symbol \in arcs_from(m1, s1) :
           <<det_step(m1, s1, symbol).next, det_step(m2, s2, symbol).next>>
               \notin bisimilar

\* (a variant for C10) output_fn returning None for an unset output
not_bisimilar_set_unset(m1, m2, bisimilar) ==
    [exc |-> "None",
     x |-> {p \in bisimilar : pair_not_bisimilar(m1, m2, bisimilar, p[1], p[2])}]

\* MooreDetMachine.__not_bisimilar_set: output_fn asserts on the first pair
\* visited that holds a state with no output; otherwise every pair is visited
not_bisimilar_set(m1, m2, bisimilar) ==
    IF \E p \in bisimilar :
           ~output_assigned(m1, p[1]) \/ ~output_assigned(m2, p[2])
    THEN [exc |-> "AssertionError", x |-> {}]
    ELSE [exc |-> "None",
          x |-> {p \in bisimilar : pair_not_bisimilar(m1, m2, bisimilar, p[1], p[2])}]

\* is_equivalent, line 340
eq_universe(m1, m2) == {<<s1, s2>> : s1 \in states(m1), s2 \in states(m2)}

\* (a variant for C26) a stop condition true as soon as any pair has left
\* the relation
eq_stop_cond_any(m1, m2) ==
    [given |-> TRUE,
     fn |-> [x \in SUBSET eq_universe(m1, m2) |-> x # eq_universe(m1, m2)]]

\* is_equivalent, lines 343-344: not_initial_states as a stop condition
eq_stop_cond(m1, m2) ==
    [given |-> TRUE,
     fn |-> [x \in SUBSET eq_universe(m1, m2) |->
                <<m1.init_state, m2.init_state>> \notin x]]

\* is_equivalent, lines 339-360: the relation the solver returns
eq_gfp(m1, m2) ==
    greatest_fixpoint(
        Difference([x \in SUBSET eq_universe(m1, m2) |-> not_bisimilar_set(m1, m2, x)]),
        eq_universe(m1, m2),
        eq_stop_cond(m1, m2))

\* (a variant for C13) is_equivalent without the checks of the alphabets
is_equivalent_states(m1, m2, same) ==
    IF same THEN [exc |-> "None", val |-> TRUE]
    ELSE LET gfp == eq_gfp(m1, m2)
         IN  IF gfp.exc # "None"
             THEN [exc |-> gfp.exc, val |-> FALSE]
             ELSE [exc |-> "None",
                   val |-> <<m1.init_state, m2.init_state>> \in gfp.x]

\* MooreDetMachine.is_equivalent(machine), called on m1 with machine = m2;
\* same is `machine is self`. [exc, val]
is_equivalent(m1, m2, same) ==
    IF same THEN [exc |-> "None", val |-> TRUE]
    ELSE IF m1.input_symbols # m2.input_symbols THEN [exc |-> "None", val |-> FALSE]
    ELSE IF m1.output_symbols # m2.output_symbols THEN [exc |-> "None", val |-> FALSE]
    ELSE LET gfp == eq_gfp(m1, m2)
         IN  IF gfp.exc # "None"
             THEN [exc |-> gfp.exc, val |-> FALSE]
             ELSE [exc |-> "None",
                   val |-> <<m1.init_state, m2.init_state>> \in gfp.x]

(***************************************************************************)
(* The client: construction calls, minimize() and is_equivalent().         *)
(***************************************************************************)
\* the state ids a client passes: every id of a machine, the next id (not
\* a state) and None
IdArgs == {None} \cup (0 .. MaxBuildStates)

NoRet == [op |-> "none", exc |-> "None", val |-> None]

Building == pc = "build" /\ gen = 0

\* self.new_state()
NewState ==
    /\ Building
    /\ self.n_states < MaxBuildStates
    /\ self' = new_state(self)
    /\ ret' = [op |-> "new_state", exc |-> "None", val |-> self.n_states]
    /\ UNCHANGED <<other, pc, partition, waiting_set, gen>>

\* self.new_state_output(output)
NewStateOutput(output) ==
    /\ Building
    /\ self.n_states < MaxBuildStates
    /\ self' = new_state_output(self, output)
    /\ ret' = [op |-> "new_state_output", exc |-> "None", val |-> self.n_states]
    /\ UNCHANGED <<other, pc, partition, waiting_set, gen>>

\* self.set_state_output(state, output)
SetStateOutput(state, output) ==
    /\ Building
    /\ IF is_state(self, state)
       THEN /\ self' = set_state_output(self, state, output)
            /\ ret' = [op |-> "set_state_output", exc |-> "None", val |-> None]
       ELSE /\ self' = self
            /\ ret' = [op |-> "set_state_output", exc |-> "AssertionError",
                       val |-> None]
    /\ UNCHANGED <<other, pc, partition, waiting_set, gen>>

\* self.new_transition(state1, symbol, state2)
NewTransition(state1, symbol, state2) ==
    /\ Building
    /\ IF is_state(self, state1) /\ is_state(self, state2)
       THEN /\ self' = new_transition(self, state1, symbol, state2)
            /\ ret' = [op |-> "new_transition", exc |-> "None", val |-> None]
       ELSE /\ self' = self
            /\ ret' = [op |-> "new_transition", exc |-> "AssertionError",
                       val |-> None]
    /\ UNCHANGED <<other, pc, partition, waiting_set, gen>>

\* self.set_initial(state)
SetInitial(state) ==
    /\ Building
    /\ self' = set_initial(self, state).m
    /\ ret' = [op |-> "set_initial",
               exc |-> IF set_initial(self, state).ok THEN "None" ELSE "ValueError",
               val |-> None]
    /\ UNCHANGED <<other, pc, partition, waiting_set, gen>>

\* minimize(), up to the loop of _hopcroft_minimize. The receiver is self,
\* or (target "other") the machine the last minimize() returned, which the
\* client holds as self from then on: m.minimize().minimize()
MinimizeCall(target) ==
    /\ IF target = "self"
       THEN pc = "build" /\ gen' = gen
       ELSE pc = "ready" /\ gen < MaxChain /\ gen' = gen + 1
    /\ self' = (IF target = "self" THEN self ELSE other)
    /\ LET h == hopcroft_init(IF target = "self" THEN self ELSE other)
       IN  IF h.exc # "None"
           THEN /\ pc' = pc
                /\ partition' = {}
                /\ waiting_set' = {}
                /\ ret' = [op |-> "minimize", exc |-> h.exc, val |-> None]
           ELSE /\ pc' = "hopcroft"
                /\ partition' = h.partition
                /\ waiting_set' = h.waiting_set
                /\ ret' = [op |-> "minimize", exc |-> "running", val |-> None]
    /\ other' = IF pc = "build" THEN other ELSE NewMachine

\* one iteration of the loop of _hopcroft_minimize: waiting_set.pop() takes
\* any queued splitter
HopcroftIteration ==
    /\ pc = "hopcroft"
    /\ waiting_set # {}
    /\ \E splitter \in waiting_set :
           LET h == hopcroft_iteration(self, partition, waiting_set, splitter)
           IN  IF h.exc # "None"
               THEN /\ pc' = IF gen = 0 THEN "build" ELSE "ready"
                    /\ partition' = {}
                    /\ waiting_set' = {}
                    /\ ret' = [op |-> "minimize", exc |-> h.exc, val |-> None]
               ELSE /\ pc' = pc
                    /\ partition' = h.partition
                    /\ waiting_set' = h.waiting_set
                    /\ ret' = ret
    /\ UNCHANGED <<self, other, gen>>

\* the loop has ended: __from_partitions builds the machine and minimize()
\* returns it. list(partition) and next(iter(group)) take any order and any
\* member.
HopcroftReturn ==
    /\ pc = "hopcroft"
    /\ waiting_set = {}
    /\ \E partition_list \in Orderings(partition),
          any_state \in Representatives(partition) :
           LET heap == from_partitions(self, partition_list, any_state)
           IN  /\ self' = heap.self
               /\ IF heap.exc # "None"
                  THEN /\ other' = other
                       /\ pc' = IF gen = 0 THEN "build" ELSE "ready"
                       /\ ret' = [op |-> "minimize", exc |-> heap.exc, val |-> None]
                  ELSE /\ other' = heap.automa
                       /\ pc' = "ready"
                       /\ ret' = [op |-> "minimize", exc |-> "None", val |-> None]
    /\ UNCHANGED <<partition, waiting_set, gen>>

\* self._moore_minimize(), called on the machine that minimize() has just
\* returned from, whose result is in other. The frame of the call is in
\* ret: the local new_partition, and whether partition and new_partition
\* are the same set object.
MooreMinimizeCall ==
    /\ pc = "ready"
    /\ ret.op = "minimize"
    /\ ret.exc = "None"
    /\ LET p == output_partitions(self)
       IN  IF p.exc # "None"
           THEN /\ pc' = pc
                /\ partition' = {}
                /\ ret' = [op |-> "_moore_minimize", exc |-> p.exc, val |-> None]
           ELSE /\ pc' = "moore"
                /\ partition' = p.partition
                /\ ret' = [op |-> "_moore_minimize", exc |-> "running", val |-> None,
                           new_partition |-> {}, aliased |-> FALSE]
    /\ UNCHANGED <<self, other, waiting_set, gen>>

\* one round of `while len(new_partition) != len(partition)`: the set
\* input_alphabet is iterated in any order
MooreWhile ==
    /\ pc = "moore"
    /\ Cardinality(ret.new_partition) # Cardinality(partition)
    /\ \E symbol_list \in Orderings(self.input_symbols) :
           LET r == moore_symbols(self, partition, ret.new_partition, ret.aliased,
                                  symbol_list, 1)
           IN  IF r.exc # "None"
               THEN /\ pc' = "ready"
                    /\ partition' = {}
                    /\ ret' = [op |-> "_moore_minimize", exc |-> r.exc, val |-> None]
               ELSE /\ pc' = pc
                    /\ partition' = r.partition
                    /\ ret' = [ret EXCEPT !.new_partition = r.new_partition,
                                          !.aliased = r.aliased]
    /\ UNCHANGED <<self, other, waiting_set, gen>>

\* the loop has ended: __from_partitions builds the machine that
\* _moore_minimize returns (the value in ret)
MooreReturn ==
    /\ pc = "moore"
    /\ Cardinality(ret.new_partition) = Cardinality(partition)
    /\ \E partition_list \in Orderings(partition),
          any_state \in Representatives(partition) :
           LET heap == from_partitions(self, partition_list, any_state)
           IN  /\ self' = heap.self
               /\ pc' = "ready"
               /\ IF heap.exc # "None"
                  THEN ret' = [op |-> "_moore_minimize", exc |-> heap.exc, val |-> None]
                  ELSE ret' = [op |-> "_moore_minimize", exc |-> "None",
                               val |-> heap.automa]
    /\ UNCHANGED <<other, partition, waiting_set, gen>>

\* self.complete_sink(default_output)
CompleteSinkCall(default_output) ==
    /\ pc = "ready"
    /\ LET r == complete_sink(self, default_output)
       IN  /\ self' = r.m
           /\ ret' = [op |-> "complete_sink", exc |-> "None", val |-> r.val]
    /\ UNCHANGED <<other, pc, partition, waiting_set, gen>>

\* x == y, x and y each the client's self or other
EqCall(x, y) ==
    /\ pc = "ready"
    /\ LET m1 == IF x = "self" THEN self ELSE other
           m2 == IF y = "self" THEN self ELSE other
       IN  ret' = [op |-> "eq", exc |-> "None", val |-> eq(m1, m2, x = y),
                   recv |-> x, arg |-> y]
    /\ UNCHANGED <<self, other, pc, partition, waiting_set, gen>>

\* self.process_word_from(state, word, strict): the pair it returns, or the
\* exception it raises. The call changes nothing of the machine, so that
\* one call from each machine shows every result.
ProcessWordFrom(state, word, strict) ==
    /\ pc = "ready"
    /\ ret.op # "process_word_from"
    /\ LET r == process_word_from(self, state, word, strict)
       IN  ret' = [op |-> "process_word_from", exc |-> r.exc,
                   val |-> <<r.out, r.state>>,
                   state |-> state, word |-> word, strict |-> strict]
    /\ UNCHANGED <<self, other, pc, partition, waiting_set, gen>>

\* x.is_equivalent(y), x and y each the client's self or other
IsEquivalentCall(x, y) ==
    /\ pc = "ready"
    /\ LET m1 == IF x = "self" THEN self ELSE other
           m2 == IF y = "self" THEN self ELSE other
           r == is_equivalent(m1, m2, x = y)
       IN  ret' = [op |-> "is_equivalent", exc |-> r.exc, val |-> r.val,
                   recv |-> x, arg |-> y]
    /\ UNCHANGED <<self, other, pc, partition, waiting_set, gen>>

(***************************************************************************)
(* The machines a client can have built, as values.                        *)
(***************************************************************************)
\* The machine with n states, arcs[s][a] the destination of s on a,
\* outputs[s] the output of s (or NoOutput), init the initial state (or
\* None), and stale the outputs that set_state_output has since replaced.
MakeMachine(n, arcs, outputs, init, stale) ==
    [n_states |-> n,
     init_states |-> IF init = None THEN {} ELSE {init},
     init_state |-> init,
     output_table |-> outputs,
     transitions |->
         [s \in 0 .. (n - 1) |-> [a \in DOMAIN arcs[s] |-> <<s, a, arcs[s][a]>>]],
     input_symbols |-> UNION {DOMAIN arcs[s] : s \in 0 .. (n - 1)},
     output_symbols |-> ({outputs[s] : s \in 0 .. (n - 1)} \ {NoOutput}) \cup stale]

\* The choices of n states for an initial state and of n outputs, up to a
\* renaming of the states and of the output symbols, which the code only
\* compares for equality: state 0 is the initial state when there is one,
\* and its output is "a".
InitChoices(n) == {None} \cup {s \in {0} : s < n}
OutputChoices(n) == {outputs \in [0 .. (n - 1) -> Out] : n > 0 => outputs[0] = "a"}

\* m is a machine with n states that is total on its input alphabet I and
\* has every output assigned
IsCompleteMachine(m, n, I) ==
    \E arcs \in [0 .. (n - 1) -> [I -> 0 .. (n - 1)]],
       outputs \in OutputChoices(n),
       init \in InitChoices(n) :
        m = MakeMachine(n, arcs, outputs, init, {})

\* the arcs of one state of a machine with n states over I
ArcChoices(n, I, total) ==
    IF total THEN [I -> 0 .. (n - 1)]
    ELSE UNION {[D -> 0 .. (n - 1)] : D \in SUBSET I}

\* m is a machine with n states over I and outputs in O, as calls can build
\* it: a symbol is left in the output alphabet by a state whose output has
\* been set again
IsMachine(m, n, I, total, O) ==
    \E arcs \in [0 .. (n - 1) -> ArcChoices(n, I, total)],
       outputs \in [0 .. (n - 1) -> O],
       init \in InitChoices(n),
       stale \in SUBSET Out :
        /\ stale # {} => \E s \in 0 .. (n - 1) : outputs[s] # NoOutput
        /\ m = MakeMachine(n, arcs, outputs, init, stale)

Init ==
    /\ self = NewMachine
    /\ other = NewMachine
    /\ pc = "build"
    /\ partition = {}
    /\ waiting_set = {}
    /\ ret = NoRet
    /\ gen = 0

Next ==
    \/ NewState
    \/ \E output \in Out : NewStateOutput(output)
    \/ \E state \in IdArgs, output \in Out : SetStateOutput(state, output)
    \/ \E state1 \in IdArgs, symbol \in Sym, state2 \in IdArgs :
           NewTransition(state1, symbol, state2)
    \/ \E state \in IdArgs : SetInitial(state)
    \/ \E target \in {"self", "other"} : MinimizeCall(target)
    \/ HopcroftIteration
    \/ HopcroftReturn
    \/ \E x \in {"self", "other"}, y \in {"self", "other"} : IsEquivalentCall(x, y)

Spec == Init /\ [][Next]_vars

\* minimize() as a function of its receiver: the receiver is any complete
\* machine of at most MaxStates states
InitMin ==
    /\ \E n \in 0 .. MaxStates, I \in SUBSET Sym : IsCompleteMachine(self, n, I)
    /\ other = NewMachine
    /\ pc = "build"
    /\ partition = {}
    /\ waiting_set = {}
    /\ ret = NoRet
    /\ gen = 0

NextMin ==
    \/ MinimizeCall("self")
    \/ HopcroftIteration
    \/ HopcroftReturn

SpecMin == InitMin /\ [][NextMin]_vars

\* minimize() with the loop of _hopcroft_minimize going on while it can (the
\* call is one thread of control: an iteration that can be made is made),
\* on the total machines of fewer than MaxStates states, or of MaxStates
\* states on fewer than all the symbols
InitLoop ==
    /\ \E n \in 0 .. MaxStates, I \in SUBSET Sym :
           /\ n < MaxStates \/ I # Sym
           /\ IsCompleteMachine(self, n, I)
    /\ other = NewMachine
    /\ pc = "build"
    /\ partition = {}
    /\ waiting_set = {}
    /\ ret = NoRet
    /\ gen = 0

SpecLoop == InitLoop /\ [][NextMin]_vars /\ WF_vars(HopcroftIteration)

\* m.minimize().minimize(), m as in SpecMin
NextIdem ==
    \/ \E target \in {"self", "other"} : MinimizeCall(target)
    \/ HopcroftIteration
    \/ HopcroftReturn

SpecIdem == InitMin /\ [][NextIdem]_vars

\* the one symbol of the machines drawn with missing transitions
PartialSym == {0}

\* A.is_equivalent(B) as a function of A and B: two machines of at most
\* MaxBuildStates states each, both total with every output assigned, or
\* both over one symbol with transitions and outputs missing. The outputs
\* are drawn up to a renaming, as in OutputChoices.
InitEq ==
    /\ \E n1 \in 0 .. MaxBuildStates, n2 \in 0 .. MaxBuildStates :
           \/ \E I1 \in SUBSET Sym, I2 \in SUBSET Sym :
                  /\ IsMachine(self, n1, I1, TRUE, Out)
                  /\ IsMachine(other, n2, I2, TRUE, Out)
           \/ \E I1 \in SUBSET PartialSym, I2 \in SUBSET PartialSym :
                  /\ IsMachine(self, n1, I1, FALSE, Out \cup {NoOutput})
                  /\ IsMachine(other, n2, I2, FALSE, Out \cup {NoOutput})
    /\ self.n_states > 0 => self.output_table[0] \in {"a", NoOutput}
    /\ pc = "ready"
    /\ partition = {}
    /\ waiting_set = {}
    /\ ret = NoRet
    /\ gen = 0

NextEq == \E x \in {"self", "other"}, y \in {"self", "other"} : IsEquivalentCall(x, y)

SpecEq == InitEq /\ [][NextEq]_vars

\* m._hopcroft_minimize() and then m._moore_minimize(), m as in SpecMin
NextMoore ==
    \/ MinimizeCall("self")
    \/ HopcroftIteration
    \/ HopcroftReturn
    \/ MooreMinimizeCall
    \/ MooreWhile
    \/ MooreReturn

SpecMoore == InitMin /\ [][NextMoore]_vars

\* process_word_from as a function of the machine, the state and the word:
\* any machine of at most MaxBuildStates states, with transitions and
\* outputs missing or not, and the words of at most MaxStates symbols
InitWord ==
    /\ \E n \in 0 .. MaxBuildStates, I \in SUBSET Sym :
           IsMachine(self, n, I, FALSE, Out \cup {NoOutput})
    /\ self.n_states > 0 => self.output_table[0] \in {"a", NoOutput}
    /\ other = NewMachine
    /\ pc = "ready"
    /\ partition = {}
    /\ waiting_set = {}
    /\ ret = NoRet
    /\ gen = 0

NextWord ==
    \E state \in IdArgs, word \in UNION {[1 .. j -> Sym] : j \in 0 .. MaxStates},
       strict \in BOOLEAN :
        ProcessWordFrom(state, word, strict)

SpecWord == InitWord /\ [][NextWord]_vars

\* the solvers as functions of their arguments: the elements are those of
\* the tests (integers), a candidate producer is any function on the sets
\* of elements, wrapped as the call names, and the stop condition is any
\* predicate of the current set, or none
Elems == 1 .. MaxElems

Producers == [SUBSET Elems -> SUBSET Elems]

StopConds == {NoStop} \cup {[given |-> TRUE, fn |-> p] : p \in [SUBSET Elems -> BOOLEAN]}

Wrappers == {"Union", "Intersection", "Difference"}

\* a producer that raises nothing, as a function to [exc, x]
Returning(g) == [x \in DOMAIN g |-> [exc |-> "None", x |-> g[x]]]

Wrapped(wrapper, g) ==
    CASE wrapper = "Union" -> Union(Returning(g))
      [] wrapper = "Intersection" -> Intersection(Returning(g))
      [] wrapper = "Difference" -> Difference(Returning(g))

\* least_fixpoint(wrapper(g), start, stop_cond)
LeastFixpointCall(wrapper, g, start, stop_cond) ==
    /\ pc = "ready"
    /\ ret = NoRet
    /\ LET r == least_fixpoint(Wrapped(wrapper, g), start, stop_cond)
       IN  ret' = [op |-> "least_fixpoint", exc |-> r.exc, val |-> r.x,
                   wrapper |-> wrapper, g |-> g, start |-> start,
                   stop_cond |-> stop_cond]
    /\ UNCHANGED <<self, other, pc, partition, waiting_set, gen>>

\* greatest_fixpoint(wrapper(g), universe, stop_cond)
GreatestFixpointCall(wrapper, g, universe, stop_cond) ==
    /\ pc = "ready"
    /\ ret = NoRet
    /\ LET r == greatest_fixpoint(Wrapped(wrapper, g), universe, stop_cond)
       IN  ret' = [op |-> "greatest_fixpoint", exc |-> r.exc, val |-> r.x,
                   wrapper |-> wrapper, g |-> g, start |-> universe,
                   stop_cond |-> stop_cond]
    /\ UNCHANGED <<self, other, pc, partition, waiting_set, gen>>

InitFix ==
    /\ self = NewMachine
    /\ other = NewMachine
    /\ pc = "ready"
    /\ partition = {}
    /\ waiting_set = {}
    /\ ret = NoRet
    /\ gen = 0

\* one call of a solver
NextFix ==
    /\ ret = NoRet
    /\ \E wrapper \in Wrappers, g \in Producers, start \in SUBSET Elems,
          stop_cond \in StopConds :
           \/ LeastFixpointCall(wrapper, g, start, stop_cond)
           \/ GreatestFixpointCall(wrapper, g, start, stop_cond)

SpecFix == InitFix /\ [][NextFix]_vars

\* complete_sink called, once and again, on any machine of at most
\* MaxBuildStates states, with transitions and outputs missing or not
NextSink == \E default_output \in Out : CompleteSinkCall(default_output)

SpecSink == InitWord /\ [][NextSink]_vars

\* reach_fixpoint(fn, start, stop_cond) step by step, fn any function on the
\* sets of elements, not wrapped. The frame of the call is in ret: the
\* arguments and the locals x and x_len.
ReachFixpointCall(fn, start, stop_cond) ==
    /\ pc = "ready"
    /\ ret = NoRet
    /\ pc' = "reach_fixpoint"
    /\ ret' = [op |-> "reach_fixpoint", exc |-> "running", val |-> {},
               fn |-> fn, start |-> start, stop_cond |-> stop_cond,
               x |-> start, x_len |-> 0 - 1]
    /\ UNCHANGED <<self, other, partition, waiting_set, gen>>

\* reach_fixpoint, lines 31 and 33: `while len(x) != x_len` is true and
\* the stop condition, if any, is false
ReachFixpointGoesOn ==
    /\ Cardinality(ret.x) # ret.x_len
    /\ ~(ret.stop_cond.given /\ ret.stop_cond.fn[ret.x])

\* one round of the loop
ReachFixpointRound ==
    /\ pc = "reach_fixpoint"
    /\ ReachFixpointGoesOn
    /\ LET r == reach_fixpoint_round(ret.fn, ret.x)
       IN  ret' = [ret EXCEPT !.x = r.x, !.x_len = r.x_len]
    /\ UNCHANGED <<self, other, pc, partition, waiting_set, gen>>

\* the loop is left and x returned
ReachFixpointReturn ==
    /\ pc = "reach_fixpoint"
    /\ ~ReachFixpointGoesOn
    /\ pc' = "ready"
    /\ ret' = [ret EXCEPT !.exc = "None", !.val = ret.x]
    /\ UNCHANGED <<self, other, partition, waiting_set, gen>>

NextReach ==
    \/ /\ ret = NoRet
       /\ \E fn \in Producers, start \in SUBSET Elems, stop_cond \in StopConds :
              ReachFixpointCall(fn, start, stop_cond)
    \/ ReachFixpointRound
    \/ ReachFixpointReturn

\* the call is sequential code: a round or a return that can be made is
\* made
SpecReach ==
    InitFix /\ [][NextReach]_vars
        /\ WF_vars(ReachFixpointRound) /\ WF_vars(ReachFixpointReturn)

\* A == B as a function of A and B, drawn as in SpecEq
NextStruct == \E x \in {"self", "other"}, y \in {"self", "other"} : EqCall(x, y)

SpecStruct == InitEq /\ [][NextStruct]_vars

(***************************************************************************)
(* What the properties speak of.                                           *)
(***************************************************************************)
\* the words over I of length at most k
Words(I, k) == UNION {[1 .. j -> I] : j \in 0 .. k}

\* every output assigned and every state with a transition on every symbol
\* of the input alphabet: what minimize() and is_equivalent() ask of a machine
AllOutputs(m) == \A s \in states(m) : output_assigned(m, s)
Total(m) == \A s \in states(m) : arcs_from(m, s) = m.input_symbols
Complete(m) == AllOutputs(m) /\ Total(m)

\* m1.process_word(w) == m2.process_word(w) for every word w over I. Two
\* machines that differ on some word differ on one no longer than the
\* number of their states together.
SameMapping(m1, m2, I) ==
    \A w \in Words(I, m1.n_states + m2.n_states) :
        process_word(m1, w, TRUE) = process_word(m2, w, TRUE)

\* minimize() has returned `other`, the minimization of `self`
Minimized == pc = "ready" /\ ret.op = "minimize" /\ ret.exc = "None"

(***************************************************************************)
(* C1  Behaviour preservation.                                             *)
(***************************************************************************)
\* C1: when minimize() has returned on a total machine with every output
\* assigned and an initial state set, the machine and the returned machine
\* give the same process_word(w) for every word w over the input alphabet.
C1_BehaviorPreserved ==
    (Minimized /\ gen = 0 /\ self.init_state # None)
        => SameMapping(self, other, self.input_symbols)

\* a three-state machine over two symbols has been minimized to fewer states
C1_Witness ==
    /\ Minimized /\ gen = 0 /\ self.init_state # None
    /\ self.n_states = MaxStates /\ self.input_symbols = Sym
    /\ other.n_states = 2
    /\ SameMapping(self, other, self.input_symbols)

(***************************************************************************)
(* C2  Smallest machine.                                                   *)
(***************************************************************************)
\* some machine with fewer than k states, over I, computes the mapping of m
SmallerMachineFor(m, k, I) ==
    \E n \in 1 .. (k - 1) :
        \E arcs \in [0 .. (n - 1) -> [I -> 0 .. (n - 1)]],
           outputs \in [0 .. (n - 1) -> Out],
           init \in 0 .. (n - 1) :
            SameMapping(m, MakeMachine(n, arcs, outputs, init, {}), I)

\* C2: when minimize() has returned on a total machine with every output
\* assigned and an initial state set (here: and some input symbol), no
\* machine with fewer states than the returned one gives the same
\* process_word(w) as the machine on every word.
C2_Smallest ==
    (/\ Minimized /\ gen = 0 /\ Complete(self) /\ self.init_state # None
     /\ self.input_symbols # {})
        => ~SmallerMachineFor(self, other.n_states, self.input_symbols)

(***************************************************************************)
(* C3  The final partition.                                                *)
(***************************************************************************)
\* the loop of _hopcroft_minimize has ended on the receiver self
LoopEnded == pc = "hopcroft" /\ waiting_set = {} /\ gen = 0

SameClass(s, t) == \E group \in partition : s \in group /\ t \in group

\* s and t produce the same output sequence on every word. Two states of a
\* machine that differ on some word differ on one no longer than the number
\* of its states.
SameOutputs(m, s, t) ==
    \A w \in Words(m.input_symbols, m.n_states) :
        process_word_from(m, s, w, TRUE).out = process_word_from(m, t, w, TRUE).out

\* the pairs of states of m that are bisimilar: the relation of
\* is_equivalent, not stopped early
Bisimilar(m) ==
    greatest_fixpoint(
        Difference([x \in SUBSET eq_universe(m, m) |-> not_bisimilar_set(m, m, x)]),
        eq_universe(m, m), NoStop).x

NoBisimilarStates(m) ==
    \A s \in states(m), t \in states(m) : <<s, t>> \in Bisimilar(m) => s = t

\* C3 (as stated): at the end of the loop two states are in the same class
\* if and only if they produce the same output sequence on every word, and
\* no two distinct states of the returned machine are bisimilar.
C3_NerodeClasses ==
    /\ LoopEnded =>
           \A s \in states(self), t \in states(self) :
               SameClass(s, t) <=> SameOutputs(self, s, t)
    /\ (Minimized /\ gen = 0) => NoBisimilarStates(other)

\* C3 (amended): at the end of the loop two states are in the same class if
\* and only if they have the same output and produce the same output
\* sequence on every word, and no two distinct states of the returned
\* machine are bisimilar.
C3_OutputNerodeClasses ==
    /\ LoopEnded =>
           \A s \in states(self), t \in states(self) :
               SameClass(s, t) <=>
                   /\ self.output_table[s] = self.output_table[t]
                   /\ SameOutputs(self, s, t)
    /\ (Minimized /\ gen = 0) => NoBisimilarStates(other)

\* two of three states have the same output and the loop has split them
C3_Witness ==
    /\ LoopEnded
    /\ self.n_states = MaxStates /\ self.input_symbols = Sym
    /\ Cardinality(partition) = MaxStates
    /\ \E s \in states(self), t \in states(self) :
           /\ s # t
           /\ self.output_table[s] = self.output_table[t]
           /\ ~SameOutputs(self, s, t)

(***************************************************************************)
(* C4  M.is_equivalent(M.minimize()).                                      *)
(***************************************************************************)
\* C4: when M.minimize() has returned, on a total machine M with every
\* output assigned (and an initial state set) built by any sequence of
\* construction calls, M.is_equivalent(M.minimize()) returns true.
C4_EquivalentToMinimized ==
    (/\ pc = "ready" /\ gen = 0
     /\ ret.op = "is_equivalent" /\ ret.recv = "self" /\ ret.arg = "other"
     /\ Complete(self) /\ self.init_state # None)
        => (ret.exc = "None" /\ ret.val = TRUE)

(***************************************************************************)
(* C5  is_equivalent and process_word.                                     *)
(***************************************************************************)
\* A.is_equivalent(B) has been called, A = self and B = other, both total
\* with every output assigned and an initial state, with equal alphabets
EquivalenceDecided ==
    /\ ret.op = "is_equivalent" /\ ret.recv = "self" /\ ret.arg = "other"
    /\ Complete(self) /\ Complete(other)
    /\ self.init_state # None /\ other.init_state # None
    /\ self.input_symbols = other.input_symbols
    /\ self.output_symbols = other.output_symbols

\* C5 (as stated): A.is_equivalent(B) returns true if and only if
\* A.process_word(w) == B.process_word(w) for every word w.
C5_EquivalentIffSameWords ==
    EquivalenceDecided =>
        /\ ret.exc = "None"
        /\ ret.val <=> SameMapping(self, other, self.input_symbols)

\* C5 (amended): A.is_equivalent(B) returns true if and only if the initial
\* states of A and B have the same output and A.process_word(w) ==
\* B.process_word(w) for every word w.
C5_EquivalentIffSameOutputAndWords ==
    EquivalenceDecided =>
        /\ ret.exc = "None"
        /\ ret.val <=>
               /\ self.output_table[self.init_state]
                      = other.output_table[other.init_state]
               /\ SameMapping(self, other, self.input_symbols)

\* two machines of two states with two outputs over two symbols, whose
\* second state is reached from the initial one, were found equivalent
C5_Witness ==
    /\ EquivalenceDecided
    /\ self.n_states = 2 /\ other.n_states = 2 /\ self.input_symbols = Sym
    /\ self.output_table[0] # self.output_table[1]
    /\ self.transitions[0][0][3] = 1
    /\ ret.val

(***************************************************************************)
(* C6  is_equivalent is reflexive and symmetric.                           *)
(***************************************************************************)
\* C6: M.is_equivalent(M) returns true, and A.is_equivalent(B) has the
\* outcome (the value returned or the exception raised) of
\* B.is_equivalent(A).
C6_ReflexiveSymmetric ==
    ret.op = "is_equivalent" =>
        IF ret.recv = ret.arg
        THEN ret.exc = "None" /\ ret.val = TRUE
        ELSE [exc |-> ret.exc, val |-> ret.val]
                 = is_equivalent(IF ret.arg = "self" THEN self ELSE other,
                                 IF ret.recv = "self" THEN self ELSE other,
                                 FALSE)

\* A.is_equivalent(B) returned false on machines with the same outputs where
\* the arcs of the initial state of A are among those of B, and not equal
C6_Witness ==
    /\ ret.op = "is_equivalent" /\ ret.recv = "self" /\ ret.arg = "other"
    /\ ret.exc = "None" /\ ret.val = FALSE
    /\ self.init_state # None /\ other.init_state # None
    /\ AllOutputs(self) /\ AllOutputs(other)
    /\ self.input_symbols = other.input_symbols
    /\ self.output_symbols = other.output_symbols
    /\ arcs_from(self, self.init_state) # arcs_from(other, other.init_state)
    /\ arcs_from(self, self.init_state) \subseteq arcs_from(other, other.init_state)

(***************************************************************************)
(* C7  minimize is idempotent up to a relabeling.                          *)
(***************************************************************************)
\* a bijection between the states of m1 and m2 that preserves the initial
\* state, every output and every transition
Isomorphic(m1, m2) ==
    /\ m1.n_states = m2.n_states
    /\ \E f \in [states(m1) -> states(m2)] :
           /\ \A s \in states(m1), t \in states(m1) : f[s] = f[t] => s = t
           /\ IF m1.init_state = None THEN m2.init_state = None
              ELSE m2.init_state = f[m1.init_state]
           /\ \A s \in states(m1) :
                  /\ m1.output_table[s] = m2.output_table[f[s]]
                  /\ arcs_from(m1, s) = arcs_from(m2, f[s])
                  /\ \A symbol \in arcs_from(m1, s) :
                         m2.transitions[f[s]][symbol][3]
                             = f[m1.transitions[s][symbol][3]]

\* C7: when minimize() has returned on a machine that minimize() returned,
\* the two have the same number of states and a bijection between their
\* states preserves the initial state, every output and every transition.
C7_Idempotent == (Minimized /\ gen >= 1) => Isomorphic(self, other)

\* the second minimize() has returned a machine of two states, with an
\* initial state and two outputs, numbered otherwise than its receiver
C7_Witness ==
    /\ Minimized /\ gen >= 1
    /\ self.n_states = 2 /\ self.init_state # None
    /\ self.input_symbols = Sym
    /\ self.output_table[0] # self.output_table[1]
    /\ other.init_state # self.init_state
    /\ Isomorphic(self, other)

(***************************************************************************)
(* C8  minimize and is_equivalent leave their machines unchanged.          *)
(***************************************************************************)
\* C8: every step of minimize() and of is_equivalent(), whether the call
\* goes on, returns or fails, leaves the receiver as it was (the receiver
\* of m.minimize().minimize() is the machine the first call returned), and
\* is_equivalent() leaves its argument as it was.
C8_InputsUnchanged ==
    [][(ret'.op \in {"minimize", "is_equivalent"}) =>
           /\ self' = (IF pc = "ready" /\ ret'.op = "minimize" THEN other ELSE self)
           /\ ret'.op = "is_equivalent" => other' = other]_vars

\* minimize() has returned a machine with fewer states and is_equivalent()
\* has been called on the two
C8_Witness ==
    /\ pc = "ready" /\ gen = 0
    /\ ret.op = "is_equivalent" /\ ret.recv = "self" /\ ret.arg = "other"
    /\ self.n_states = 2 /\ other.n_states = 1
    /\ self.input_symbols = Sym /\ self.init_state = 1

(***************************************************************************)
(* C9  minimize on a machine that is not total.                            *)
(***************************************************************************)
\* C9: while the receiver has a state without a transition for a symbol of
\* its input alphabet, or a state with no output, minimize() has not
\* returned a machine, its loop has a splitter left to pop whatever was
\* popped before, and the call has failed with an assertion failure when it
\* is over.
C9_MinimizeFails ==
    ~Complete(self) =>
        /\ pc # "ready"
        /\ pc = "hopcroft" => waiting_set # {}
        /\ ret.op = "minimize" =>
               IF pc = "hopcroft" THEN ret.exc = "running"
               ELSE ret.exc = "AssertionError"

\* minimize() has failed on a machine with every output assigned and two
\* input symbols, where only one transition is missing
C9_Witness ==
    /\ pc = "build" /\ ret.op = "minimize" /\ ret.exc = "AssertionError"
    /\ AllOutputs(self) /\ self.n_states = 2 /\ self.input_symbols = Sym
    /\ arcs_from(self, 0) = Sym /\ arcs_from(self, 1) = {0}

(***************************************************************************)
(* C10  is_equivalent on machines that are not total.                      *)
(***************************************************************************)
\* A.is_equivalent(B) has been called, A = self and B = other distinct, each
\* with an initial state, with equal alphabets
EquivalenceCalled ==
    /\ ret.op = "is_equivalent" /\ ret.recv = "self" /\ ret.arg = "other"
    /\ self.init_state # None /\ other.init_state # None
    /\ self.input_symbols = other.input_symbols
    /\ self.output_symbols = other.output_symbols

\* C10 (as stated): A.is_equivalent(B), where A or B has a state without a
\* transition for some alphabet symbol or a state with no output, fails
\* with an assertion failure.
C10_FailsOnPartial ==
    (EquivalenceCalled /\ (~Complete(self) \/ ~Complete(other)))
        => ret.exc = "AssertionError"

\* C10 (amended): A.is_equivalent(B) fails with an assertion failure when A
\* or B has a state with no output; when every output is assigned it
\* returns true or false, also when transitions are missing.
C10_FailsOnUnsetOutput ==
    EquivalenceCalled =>
        IF AllOutputs(self) /\ AllOutputs(other)
        THEN ret.exc = "None"
        ELSE ret.exc = "AssertionError"

\* the call has failed on two machines of two states where only a state
\* that the initial states do not reach has no output
C10_Witness ==
    /\ EquivalenceCalled
    /\ ret.exc = "AssertionError"
    /\ self.n_states = 2 /\ other.n_states = 2
    /\ AllOutputs(other)
    /\ self.output_table[0] # NoOutput /\ self.output_table[1] = NoOutput
    /\ self.init_state = 0 /\ arcs_from(self, 0) = {}

(***************************************************************************)
(* C11  One initial state at a time.                                       *)
(***************************************************************************)
\* C11: every set_initial(state) that succeeds, whatever was designated
\* before, leaves init_states == {state} and init_state == state.
C11_OneInitialState ==
    [][\A state \in IdArgs :
           (SetInitial(state) /\ ret'.exc = "None")
               => (self'.init_states = {state} /\ self'.init_state = state)]_vars

\* set_initial(1) has succeeded on a machine of two states
C11_Witness ==
    /\ ret.op = "set_initial" /\ ret.exc = "None"
    /\ self.n_states = 2 /\ self.init_state = 1 /\ self.init_states = {1}

(***************************************************************************)
(* C12  process_word_from and missing transitions.                         *)
(***************************************************************************)
\* the state of m after the first i symbols of w read from s, None when a
\* transition was missing on the way
RECURSIVE StateAfter(_, _, _, _)
StateAfter(m, s, w, i) ==
    IF i = 0 THEN s
    ELSE LET q == StateAfter(m, s, w, i - 1)
         IN  IF q = None \/ w[i] \notin arcs_from(m, q) THEN None
             ELSE m.transitions[q][w[i]][3]

\* the index (from 0) of the first symbol of w with no transition, Len(w)
\* when there is none
FirstMissing(m, s, w) ==
    CHOOSE k \in 0 .. Len(w) :
        /\ StateAfter(m, s, w, k) # None
        /\ k < Len(w) => StateAfter(m, s, w, k + 1) = None

\* the outputs of the states m is in before reading each of the first k
\* symbols of w
OutputsBefore(m, s, w, k) ==
    [i \in 1 .. k |-> m.output_table[StateAfter(m, s, w, i - 1)]]

C13_DifferentAlphabets ==
    (/\ ret.op = "is_equivalent" /\ ret.recv # ret.arg
     /\ \/ self.input_symbols # other.input_symbols
        \/ self.output_symbols # other.output_symbols)
        => (ret.exc = "None" /\ ret.val = FALSE)

\* the call has returned on machines of different output alphabets, where
\* the receiver has no initial state, a state with no output and a state
\* with no transition
C13_Witness ==
    /\ ret.op = "is_equivalent" /\ ret.recv = "self" /\ ret.arg = "other"
    /\ ret.exc = "None" /\ ret.val = FALSE
    /\ self.input_symbols = other.input_symbols
    /\ self.output_symbols # other.output_symbols
    /\ self.init_state = None /\ other.init_state # None
    /\ ~AllOutputs(self) /\ ~Total(self)

Monotone(g) == \A X \in DOMAIN g, Y \in DOMAIN g : X \subseteq Y => g[X] \subseteq g[Y]

\* a solver has returned with no stop condition given
Solved(op, wrapper) ==
    /\ ret.op = op
    /\ ret.wrapper = wrapper
    /\ ~ret.stop_cond.given

\* C15: for a monotone g and no stop condition,
\* least_fixpoint(Union(g), start) is the smallest set that includes start
\* and is closed under g, and greatest_fixpoint(Intersection(g), U) is the
\* largest subset of U that g reproduces (X included in g(X)).
C15_SmallestLargest ==
    /\ (Solved("least_fixpoint", "Union") /\ Monotone(ret.g)) =>
           /\ ret.exc = "None"
           /\ ret.start \subseteq ret.val
           /\ ret.g[ret.val] \subseteq ret.val
           /\ \A X \in SUBSET Elems :
                  (ret.start \subseteq X /\ ret.g[X] \subseteq X) => ret.val \subseteq X
    /\ (Solved("greatest_fixpoint", "Intersection") /\ Monotone(ret.g)) =>
           /\ ret.exc = "None"
           /\ ret.val \subseteq ret.start
           /\ ret.val \subseteq ret.g[ret.val]
           /\ \A X \in SUBSET ret.start :
                  X \subseteq ret.g[X] => X \subseteq ret.val

\* the least fixpoint of a monotone g that takes two applications to reach
C15_Witness ==
    /\ Solved("least_fixpoint", "Union")
    /\ Monotone(ret.g)
    /\ ret.start = {}
    /\ ret.g[{}] = {1}
    /\ ret.g[{1}] = {1, 2}
    /\ ret.val = {1, 2}

\* the iterates of f from x: x, f(x), f(f(x)), ... up to the first one that
\* f leaves as it is
RECURSIVE Iterates(_, _)
Iterates(f, x) == IF f[x].x = x THEN <<x>> ELSE <<x>> \o Iterates(f, f[x].x)

SolverReturned == ret.op \in {"least_fixpoint", "greatest_fixpoint"}

CallIterates == Iterates(Wrapped(ret.wrapper, ret.g), ret.start)

\* the positions of the iterates on which the stop condition of the call
\* is true
Stopping ==
    {i \in DOMAIN CallIterates : ret.stop_cond.given /\ ret.stop_cond.fn[CallIterates[i]]}

ExactFixpoint == CallIterates[Len(CallIterates)]

\* the solver returns the first iterate on which stop_cond is true, the
\* start set when it is true there, and the fixpoint when it is true nowhere
ReturnsFirstStopping ==
    /\ ret.exc = "None"
    /\ IF Stopping = {}
       THEN ret.val = ExactFixpoint
       ELSE \E i \in Stopping :
                /\ \A j \in Stopping : i <= j
                /\ ret.val = CallIterates[i]

\* C16 as stated: stop_cond is evaluated before every application of f, the
\* first iterate on which it is true is returned, and the exact fixpoint is
\* returned only when stop_cond is false on every iterate.
C16_FixpointOnlyWithoutStop ==
    SolverReturned =>
        /\ ReturnsFirstStopping
        /\ ret.val = ExactFixpoint => Stopping = {}

\* C16: stop_cond is evaluated before every application of f, the first
\* iterate on which it is true is returned, and the exact fixpoint is
\* returned when stop_cond is false on every iterate (and also when the
\* first iterate on which it is true is the fixpoint).
C16_StopBeforeApplication ==
    SolverReturned =>
        /\ ReturnsFirstStopping
        /\ Stopping \subseteq {Len(CallIterates)} => ret.val = ExactFixpoint

\* a stop condition false on the start set and true on the next iterate,
\* which is not the fixpoint
C16_Witness ==
    /\ ret.op = "least_fixpoint"
    /\ ret.wrapper = "Union"
    /\ ret.start = {}
    /\ ret.g[{}] = {1}
    /\ ret.g[{1}] = {2}
    /\ ret.stop_cond.given
    /\ ~ret.stop_cond.fn[{}]
    /\ ret.stop_cond.fn[{1}]
    /\ ret.val = {1}

\* the dual of g in the universe U: g'(Y) = U \ g(U \ Y)
Dual(g, U) == [Y \in DOMAIN g |-> U \ g[U \ Y]]

\* C17: for every producer g on the subsets of a universe U, monotone or
\* not, greatest_fixpoint(Intersection(g), U) is the complement in U of
\* least_fixpoint(Union(g'), {}) for the dual g' of g.
C17_Duality ==
    Solved("greatest_fixpoint", "Intersection") =>
        LET lfp == least_fixpoint(Union(Returning(Dual(ret.g, ret.start))), {}, NoStop)
        IN  /\ ret.exc = "None"
            /\ lfp.exc = "None"
            /\ ret.val = ret.start \ lfp.x

\* a producer that is not monotone, on the whole universe, whose greatest
\* fixpoint takes two rounds of removals
C17_Witness ==
    /\ Solved("greatest_fixpoint", "Intersection")
    /\ ret.start = Elems
    /\ ret.g[{1, 2}] = {1}
    /\ ret.g[{1}] = {2}
    /\ ~Monotone(ret.g)
    /\ ret.val = {}

(***************************************************************************)
(* The reference algorithm.                                                *)
(***************************************************************************)
\* C18: on every total machine with all outputs assigned, _moore_minimize
\* returns, and the machine it returns has as many states as the one
\* _hopcroft_minimize returned and is equal to it up to a relabeling of the
\* states.
C18_MooreOracle ==
    (ret.op = "_moore_minimize" /\ ret.exc # "running") =>
        /\ ret.exc = "None"
        /\ ret.val.n_states = other.n_states
        /\ Isomorphic(ret.val, other)

(***************************************************************************)
(* complete_sink                                                           *)
(***************************************************************************)
\* what a call of complete_sink on a machine m that is not total leaves in
\* n: one more state, with the output, looping on every symbol; every
\* missing transition of m made a transition to it, and nothing else changed
SinkAdded(m, n, default_output) ==
    LET sink == m.n_states
    IN  /\ n.n_states = m.n_states + 1
        /\ n.output_table[sink] = default_output
        /\ n.input_symbols = m.input_symbols
        /\ n.init_state = m.init_state
        /\ n.init_states = m.init_states
        /\ \A a \in m.input_symbols : n.transitions[sink][a] = <<sink, a, sink>>
        /\ \A s \in states(m) :
               /\ n.output_table[s] = m.output_table[s]
               /\ \A a \in m.input_symbols :
                      IF a \in arcs_from(m, s)
                      THEN n.transitions[s][a] = m.transitions[s][a]
                      ELSE n.transitions[s][a] = <<s, a, sink>>

\* C19: complete_sink(default_output) on a total machine changes nothing
\* and returns None; on a machine that is not total it adds one state with
\* output default_output that loops on every symbol, makes every missing
\* transition a transition to it, leaves the existing transitions as they
\* are and makes is_complete() true, so that a second call does nothing.
C19_CompleteSink ==
    [][\A default_output \in Out :
           CompleteSinkCall(default_output) =>
               IF Total(self)
               THEN self' = self /\ ret'.val = None
               ELSE /\ SinkAdded(self, self', default_output)
                    /\ is_complete(self')
                    /\ \A again \in Out :
                           complete_sink(self', again) = [m |-> self', val |-> None]]_vars

\* a sink added to a machine of two states: the transition of state 0 kept,
\* the missing transition of state 1 made a transition to the sink
C19_Witness ==
    /\ ret.op = "complete_sink"
    /\ ret.val = 2
    /\ self.n_states = 3
    /\ self.input_symbols = {0}
    /\ self.transitions[0][0] = <<0, 0, 1>>
    /\ self.transitions[1][0] = <<1, 0, 2>>
    /\ self.transitions[2][0] = <<2, 0, 2>>
    /\ self.output_table[2] = "b"

(***************************************************************************)
(* State ids.                                                              *)
(***************************************************************************)
\* the ids that m holds an output and transitions for are 0 .. n_states - 1,
\* and is_state is true of these and of no other id
ContiguousIds(m) ==
    /\ DOMAIN m.output_table = 0 .. (m.n_states - 1)
    /\ DOMAIN m.transitions = 0 .. (m.n_states - 1)
    /\ states(m) = {s \in (0 - 1) .. (MaxStates + 1) : is_state(m, s)}
    /\ ~is_state(m, None)

NewStateCalled == NewState \/ \E output \in Out : NewStateOutput(output)

\* C20: at every point of a construction the ids of the states are exactly
\* 0 .. n_states - 1 and is_state is true of them alone; a call of
\* new_state or new_state_output returns the number of states there were,
\* so the k-th call returns k - 1, and makes it a state; every earlier
\* state stays a state under its id, and no other call changes the number
\* of states.
C20_ContiguousIds ==
    /\ [](ContiguousIds(self) /\ ContiguousIds(other))
    /\ [][NewStateCalled =>
              /\ ret'.val = self.n_states
              /\ self'.n_states = self.n_states + 1
              /\ ~is_state(self, ret'.val)
              /\ is_state(self', ret'.val)
              /\ \A s \in states(self) :
                     /\ is_state(self', s)
                     /\ self'.output_table[s] = self.output_table[s]
                     /\ self'.transitions[s] = self.transitions[s]]_vars
    /\ [][(Building /\ ~NewStateCalled) => self'.n_states = self.n_states]_vars

\* the second call of new_state, after a transition of state 0 was added:
\* it has returned 1
C20_Witness ==
    /\ ret.op = "new_state"
    /\ ret.val = 1
    /\ self.n_states = 2
    /\ self.transitions[0] # EmptyDict
    /\ self.output_table[0] = "a"

(***************************************************************************)
(* is_complete                                                             *)
(***************************************************************************)
\* the symbols that the transitions of m carry
DerivedAlphabet(m) == UNION {arcs_from(m, s) : s \in states(m)}

EveryStateEverySymbol(m) ==
    \A s \in states(m), a \in DerivedAlphabet(m) : a \in arcs_from(m, s)

\* C21: at every point of a construction is_complete() is true exactly when
\* every state has a transition on every symbol that some transition
\* carries; a state added when the alphabet is not empty leaves the machine
\* incomplete.
C21_IsComplete ==
    /\ [](is_complete(self) <=> EveryStateEverySymbol(self))
    /\ [][(NewStateCalled /\ DerivedAlphabet(self) # {}) => ~is_complete(self')]_vars

\* a machine complete with one state looping on 0, made incomplete by a
\* second state
C21_Witness ==
    /\ ret.op = "new_state"
    /\ self.n_states = 2
    /\ arcs_from(self, 0) = {0}
    /\ arcs_from(self, 1) = {}
    /\ ~is_complete(self)

(***************************************************************************)
(* The loop of _hopcroft_minimize.                                         *)
(***************************************************************************)
\* the test of `while len(waiting_set) > 0` is about to be made
LoopHead == pc = "hopcroft"

IsPartitionOf(part, S) ==
    /\ {} \notin part
    /\ \A g \in part, h \in part : g # h => g \cap h = {}
    /\ UNION part = S

\* C22: at the head of every iteration of the loop, on a total machine, the
\* classes of the working partition are non-empty, pairwise disjoint and
\* cover the states, and the states of a class have the same output.
C22_WorkingPartition ==
    LoopHead =>
        /\ IsPartitionOf(partition, states(self))
        /\ \A g \in partition :
               \A s \in g, t \in g : self.output_table[s] = self.output_table[t]

\* the head of an iteration after a split: two states with the same output
\* are in two classes, and splitters are still queued
C22_Witness ==
    /\ LoopHead
    /\ waiting_set # {}
    /\ self.n_states = MaxStates
    /\ Cardinality(partition) = MaxStates
    /\ Cardinality({self.output_table[s] : s \in states(self)}) = 2

\* C23: an iteration that splits a class leaves no splitter of that class
\* queued and queues a splitter for every new sub-class and every symbol of
\* the alphabet; so at the head of every iteration the class of every
\* queued splitter is a class of the working partition.
C23_NoStaleSplitters ==
    /\ [](LoopHead => \A splitter \in waiting_set : splitter[1] \in partition)
    /\ [][(HopcroftIteration /\ pc' = "hopcroft") =>
              /\ \A group \in partition \ partition', symbol \in Sym :
                     <<group, symbol>> \notin waiting_set'
              /\ \A sub_group \in partition' \ partition, symbol \in self.input_symbols :
                     <<sub_group, symbol>> \in waiting_set']_vars

\* a class of two states has been split while a splitter of it was queued:
\* the splitters queued are of the two sub-classes and the third class
C23_Witness ==
    /\ LoopHead
    /\ self.n_states = MaxStates /\ self.input_symbols = Sym
    /\ Cardinality(partition) = MaxStates
    /\ Cardinality({self.output_table[s] : s \in states(self)}) = 2
    /\ Cardinality(waiting_set) >= 4

\* C24: on every total machine with all outputs assigned the loop of
\* _hopcroft_minimize ends, whatever splitter each iteration pops: an
\* iteration either splits a class, and the classes are never more than
\* the states, or leaves the partition as it is and the waiting set one
\* splitter shorter.
C24_Terminates ==
    /\ (LoopHead ~> (pc = "hopcroft" /\ waiting_set = {}))
    /\ [](LoopHead => Cardinality(partition) <= self.n_states)
    /\ [][(HopcroftIteration /\ pc' = "hopcroft") =>
              \/ Cardinality(partition') > Cardinality(partition)
              \/ /\ partition' = partition
                 /\ Cardinality(waiting_set') = Cardinality(waiting_set) - 1]_vars

\* minimize() has returned on a machine of three states whose loop has
\* split the two states with the same output
C24_Witness ==
    /\ ret.op = "minimize" /\ ret.exc = "None"
    /\ self.n_states = MaxStates /\ self.input_symbols # {}
    /\ Cardinality({self.output_table[s] : s \in states(self)}) = 2
    /\ Cardinality(partition) = MaxStates
    /\ other.n_states = MaxStates

\* the decrease of C24 alone, for the machines of SpecMin
C24_Decreases ==
    /\ [](LoopHead => Cardinality(partition) <= self.n_states)
    /\ [][(HopcroftIteration /\ pc' = "hopcroft") =>
              \/ Cardinality(partition') > Cardinality(partition)
              \/ /\ partition' = partition
                 /\ Cardinality(waiting_set') = Cardinality(waiting_set) - 1]_vars

(***************************************************************************)
(* The machine rebuilt from the final partition.                           *)
(***************************************************************************)
\* the class of state s in the partition part
ClassOf(part, s) == CHOOSE g \in part : s \in g

\* n is the machine of the classes of part, a partition of the states of m,
\* under the numbering f of the classes
MachineOfClasses(m, part, n, f) ==
    /\ \A g \in part, h \in part : f[g] = f[h] => g = h
    /\ n.input_symbols = m.input_symbols
    /\ IF m.init_state = None THEN n.init_state = None
       ELSE n.init_state = f[ClassOf(part, m.init_state)]
    /\ \A g \in part :
           /\ n.output_table[f[g]] # NoOutput
           /\ arcs_from(n, f[g]) = m.input_symbols
           /\ \A s \in g :
                  /\ n.output_table[f[g]] = m.output_table[s]
                  /\ \A a \in m.input_symbols :
                         n.transitions[f[g]][a]
                             = <<f[g], a, f[ClassOf(part, m.transitions[s][a][3])]>>

\* C25: the machine that minimize() returns on a total machine M has one
\* state per class of the final partition, each with an output and with a
\* transition on every symbol of M's alphabet, and its initial state is the
\* class of M's; the output and the class of the destination on each symbol
\* are the same for every member of a class, so the choice of the
\* representative does not show.
C25_RebuiltMachine ==
    (Minimized /\ gen = 0) =>
        /\ other.n_states = Cardinality(partition)
        /\ \E f \in [partition -> states(other)] :
               MachineOfClasses(self, partition, other, f)

\* three states in two classes: the class of two states has two members to
\* take the output and the transitions from
C25_Witness ==
    /\ Minimized /\ gen = 0
    /\ self.n_states = MaxStates /\ self.input_symbols = Sym
    /\ self.init_state = 0
    /\ other.n_states = 2
    /\ \E g \in partition : Cardinality(g) = 2 /\ 0 \in g
    /\ \E s \in states(self) : self.transitions[s][0][3] # self.transitions[0][0][3]

(***************************************************************************)
(* The early stop of is_equivalent.                                        *)
(***************************************************************************)
\* the relation of is_equivalent computed to the end, with no stop
\* condition
ExactRelation(m1, m2) ==
    greatest_fixpoint(
        Difference([x \in SUBSET eq_universe(m1, m2) |-> not_bisimilar_set(m1, m2, x)]),
        eq_universe(m1, m2), NoStop)

\* A.is_equivalent(B) has been called, A = self and B = other distinct with
\* equal alphabets and every output assigned: the relation is computed
CheckRan ==
    /\ ret.op = "is_equivalent" /\ ret.recv = "self" /\ ret.arg = "other"
    /\ self.input_symbols = other.input_symbols
    /\ self.output_symbols = other.output_symbols
    /\ AllOutputs(self) /\ AllOutputs(other)

\* C26: the value that is_equivalent returns, computed with the stop
\* condition "the pair of initial states has left the relation", is the
\* membership of that pair in the greatest fixpoint computed with no stop
\* condition.
C26_EarlyStopSameVerdict ==
    CheckRan =>
        /\ ret.exc = "None"
        /\ ExactRelation(self, other).exc = "None"
        /\ ret.val <=> (<<self.init_state, other.init_state>>
                            \in ExactRelation(self, other).x)

\* the pair of initial states leaves the relation in the first round, and
\* the exact relation takes a second round to lose another pair
C26_Witness ==
    /\ CheckRan
    /\ self.init_state = 0 /\ other.init_state = 0
    /\ ~ret.val
    /\ self.output_table[0] # other.output_table[0]
    /\ eq_gfp(self, other).x # ExactRelation(self, other).x

(***************************************************************************)
(* The test of the sizes in reach_fixpoint.                                *)
(***************************************************************************)
Grows(f) == \A x \in DOMAIN f : x \subseteq f[x]
Shrinks(f) == \A x \in DOMAIN f : f[x] \subseteq x

\* reach_fixpoint is running with no stop condition on a function that only
\* grows its argument, or only shrinks it
ReachingMonotone ==
    /\ ret.op = "reach_fixpoint"
    /\ ~ret.stop_cond.given
    /\ Grows(ret.fn) \/ Shrinks(ret.fn)

\* C27: reach_fixpoint with no stop condition, on a function that only
\* grows its argument or only shrinks it, returns, and the set it returns is
\* a fixpoint of the function.
C27_SizeTestSafe ==
    /\ [](ReachingMonotone /\ ret.exc = "None" => ret.fn[ret.val] = ret.val)
    /\ (ReachingMonotone ~> (ReachingMonotone /\ ret.exc = "None"))

\* a function that only grows its argument and is not monotone: the loop
\* has returned after two rounds that grew the set and one that did not
C27_Witness ==
    /\ ReachingMonotone /\ ret.exc = "None"
    /\ ret.start = {}
    /\ ret.fn[{}] = {1}
    /\ ret.fn[{1}] = {1, 2}
    /\ ret.fn[{2}] = {2}
    /\ ret.val = {1, 2}

(***************************************************************************)
(* The order of the pops.                                                  *)
(***************************************************************************)
\* the partition at the end of one run of the loop from (part, waiting),
\* the run that pops the splitter CHOOSE fixes at each iteration
RECURSIVE OneRun(_, _, _)
OneRun(m, part, waiting) ==
    IF waiting = {}
    THEN part
    ELSE LET h == hopcroft_iteration(m, part, waiting,
                                     CHOOSE splitter \in waiting : TRUE)
         IN  IF h.exc # "None" THEN {} ELSE OneRun(m, h.partition, h.waiting_set)

\* C28: for every total machine, whatever the sequence of pops, the
\* partition at the end of the loop of _hopcroft_minimize is the one and the
\* same partition, that of the run with the pops in a fixed order.
C28_PopOrderIrrelevant ==
    LoopEnded =>
        LET h == hopcroft_init(self)
        IN  h.exc = "None" /\ partition = OneRun(self, h.partition, h.waiting_set)

\* the loop has ended on a machine of three states and two symbols that
\* started with four splitters queued, and it has split a class
C28_Witness ==
    /\ LoopEnded
    /\ self.n_states = MaxStates
    /\ Cardinality(hopcroft_init(self).waiting_set) >= 4
    /\ Cardinality(partition) > Cardinality(hopcroft_init(self).partition)

(***************************************************************************)
(* set_initial with an id that is not a state.                             *)
(***************************************************************************)
\* init_states holds the designated initial state and nothing else
InitialStatesAgree(m) ==
    m.init_states = IF m.init_state = None THEN {} ELSE {m.init_state}

\* C29: set_initial(state) with an id that is not a valid state raises
\* ValueError and leaves the machine as it was, so that in every reachable
\* state init_states is empty when init_state is None and {init_state}
\* otherwise.
C29_SetInitialRejects ==
    /\ [][\A state \in IdArgs :
              (SetInitial(state) /\ ~is_state(self, state))
                  => (ret'.exc = "ValueError" /\ self' = self)]_vars
    /\ []InitialStatesAgree(self)

(***************************************************************************)
(* Equality and equivalence.                                               *)
(***************************************************************************)
\* C30: for two distinct machines A and B with all outputs assigned, if
\* A == B then A.is_equivalent(B) returns True.
C30_EqualImpliesEquivalent ==
    (/\ ret.op = "is_equivalent"
     /\ ret.recv = "self" /\ ret.arg = "other"
     /\ AllOutputs(self) /\ AllOutputs(other)
     /\ eq(self, other, FALSE))
        => (ret.exc = "None" /\ ret.val = TRUE)

(***************************************************************************)
(* The derived alphabets.                                                  *)
(***************************************************************************)
\* the outputs that states of m have now, and the symbols that label
\* transitions of m now
CurrentOutputs(m) == {m.output_table[s] : s \in states(m)} \ {NoOutput}
CurrentLabels(m) == UNION {arcs_from(m, s) : s \in states(m)}

\* C31 (as stated): while a machine is built, output_alphabet is the set of
\* the outputs that states have now and input_alphabet the set of the
\* symbols that label transitions now.
C31_AlphabetsAreCurrent ==
    Building =>
        /\ self.output_symbols = CurrentOutputs(self)
        /\ self.input_symbols = CurrentLabels(self)

\* C31 (amended): while a machine is built, output_alphabet is the set of
\* the outputs that calls have assigned so far: it starts empty, a call that
\* assigns an output adds it and no call removes one, so that it holds the
\* outputs that states have now and any output that a reassignment has
\* replaced; input_alphabet is the set of the symbols that label
\* transitions now.
C31_AlphabetsOfCalls ==
    /\ [](Building => /\ CurrentOutputs(self) \subseteq self.output_symbols
                   /\ self.input_symbols = CurrentLabels(self))
    /\ [][(Building /\ Building') =>
              self'.output_symbols =
                  self.output_symbols
                      \cup (IF ret'.op \in {"new_state_output", "set_state_output"}
                               /\ ret'.exc = "None"
                            THEN CurrentOutputs(self') \ CurrentOutputs(self)
                            ELSE {})
                      \cup (IF ret'.op = "set_state_output" /\ ret'.exc = "None"
                            THEN {o \in Out : \E s \in states(self) :
                                      /\ self'.output_table[s] = o
                                      /\ self.output_table[s] # o}
                            ELSE {})]_vars

\* set_state_output has replaced the output 'b' of a state by 'a': no state
\* has 'b' and the output alphabet holds it; a transition is there
C31_Witness ==
    /\ Building
    /\ ret.op = "set_state_output" /\ ret.exc = "None"
    /\ self.n_states = MaxBuildStates
    /\ CurrentOutputs(self) = {"a"}
    /\ self.output_symbols = {"a", "b"}
    /\ self.input_symbols = {0}
    /\ CurrentLabels(self) = {0}

====
